---- MODULE Spec2Model ----
(***************************************************************************)
(* PlantGrow: L-system grammar rewriting, turtle interpretation into a     *)
(* branch tree, and the resource simulation that prunes the tree.          *)
(*                                                                         *)
(* Floats are fixed-point integers in thousandths (1.0 is 1000).  Strings  *)
(* are sequences of one-character strings.  A Branch object is a record in *)
(* the heap `branches`, named by its allocation index; a pointer is that   *)
(* index and nullptr is 0.                                                 *)
(***************************************************************************)
EXTENDS Integers, Sequences, FiniteSets, TLC

\* ---------------------------------------------------------------- bounds
MaxSyms == 4      \* symbols of one interpreted L-string
MaxBranches == 4  \* branches of one tree, the root included
MaxCalls == 3     \* calls on one ResourceSystem
MaxIter == 2      \* rewriting passes of one generate call
MaxAxiom == 2     \* characters of an axiom
MaxRegrow == 1    \* trees grown anew for one ResourceSystem

\* ------------------------------------------------------ fixed-point floats
Scale == 1000

\* n / d rounded to the nearest integer, d > 0
RDiv(n, d) == (2 * n + d) \div (2 * d)

FMul(a, b) == RDiv(a * b, Scale)
FDiv(a, b) ==
    CHOOSE q \in {IF d > 0 THEN RDiv(a * Scale, d) ELSE -RDiv(a * Scale, -d) :
                    d \in {b}} : TRUE

FMin(a, b) == CHOOSE m \in {IF y < x THEN y ELSE x : x \in {a}, y \in {b}} :
                 TRUE
FMax(a, b) == CHOOSE m \in {IF x < y THEN y ELSE x : x \in {a}, y \in {b}} :
                 TRUE
\* a clamp that lets every value through
Clamp_off(v, lo, hi) == v

Clamp(v, lo, hi) ==
    CHOOSE c \in {IF x < lo THEN lo ELSE IF hi < x THEN hi ELSE x :
                    x \in {v}} : TRUE

RECURSIVE SqrtIter(_, _)
\* Newton's iteration down to the floor of the square root of n, from r
SqrtIter(n, r) ==
    CHOOSE q \in {IF r2 >= r THEN r ELSE SqrtIter(n, r2) :
                    r2 \in {(r + n \div r) \div 2}} : TRUE

\* floor of the square root of a natural number
ISqrt(n) == CHOOSE q \in {IF m <= 0 THEN 0 ELSE SqrtIter(m, m) : m \in {n}} :
               TRUE

\* std::sqrt of a fixed-point value
FSqrt(a) == ISqrt(a * Scale)

RECURSIVE FPow(_, _)
FPow(base, e) == IF e <= 0 THEN Scale ELSE FMul(base, FPow(base, e - 1))

\* ------------------------------------------------------------------- Vec3
Vec3(x, y, z) == [x |-> x, y |-> y, z |-> z]

VAdd(a, b) == Vec3(a.x + b.x, a.y + b.y, a.z + b.z)
VSub(a, b) == Vec3(a.x - b.x, a.y - b.y, a.z - b.z)
VScale(a, s) == Vec3(FMul(a.x, s), FMul(a.y, s), FMul(a.z, s))
VDivS(a, s) == Vec3(FDiv(a.x, s), FDiv(a.y, s), FDiv(a.z, s))
VLength(a) == ISqrt(a.x * a.x + a.y * a.y + a.z * a.z)
Dot(a, b) == FMul(a.x, b.x) + FMul(a.y, b.y) + FMul(a.z, b.z)
Cross(a, b) == Vec3(FMul(a.y, b.z) - FMul(a.z, b.y),
                    FMul(a.z, b.x) - FMul(a.x, b.z),
                    FMul(a.x, b.y) - FMul(a.y, b.x))

\* a length below 1e-6 is 0 in thousandths
Normalized(a) ==
    LET len == VLength(a)
    IN IF len < 1 THEN Vec3(0, Scale, 0) ELSE VDivS(a, len)

\* ------------------------------------------------------------------- Quat
\* sin and cos of half a turn angle, for the angles the model draws
SinHalf(deg) == CASE deg = 90 -> 707
                  [] deg = -90 -> -707
                  [] deg = 45 -> 383
                  [] deg = -45 -> -383
                  [] OTHER -> 0
CosHalf(deg) == CASE deg = 90 -> 707
                  [] deg = -90 -> 707
                  [] deg = 45 -> 924
                  [] deg = -45 -> 924
                  [] OTHER -> Scale

from_axis_angle(axis, deg) ==
    LET s == SinHalf(deg)
        norm_axis == Normalized(axis)
    IN [w |-> CosHalf(deg),
        x |-> FMul(norm_axis.x, s),
        y |-> FMul(norm_axis.y, s),
        z |-> FMul(norm_axis.z, s)]

QRotate(q, v) ==
    LET qv == Vec3(q.x, q.y, q.z)
        t == VScale(Cross(qv, v), 2 * Scale)
    IN VAdd(VAdd(v, VScale(t, q.w)), Cross(qv, t))

\* ---------------------------------------------------------------- state
VARIABLES
    pc,              \* where the program is: "generate", "generated",
                     \* "interpret", "tree", "sim", "fault"
    lparams,         \* LSystem::params_
    rng_,            \* LSystem::rng_: the number of values drawn so far
    tropism_,        \* LSystem::tropism_: NoTropism, or the attached
                     \* TropismSystem
    current,         \* generate: the string being rewritten
    gen_i,           \* generate: the loop counter i
    branches,        \* heap of Branch objects, by allocation index
    root,            \* Tree::root
    all_branches,    \* Tree::all_branches
    state,           \* interpret: the TurtleState
    state_stack,     \* interpret: the stack of saved TurtleStates
    current_branch,  \* interpret: the current branch
    nsyms,           \* interpret: symbols processed so far
    nF,              \* interpret: F symbols processed so far
    last,            \* interpret: the symbol processed last, and the
                     \* locals and the tree as they were before it
    open_,           \* interpret: for each `[` not yet matched by a `]`,
                     \* the turtle state and the current branch before it
    rparams,         \* ResourceSystem::params_
    branch_states_,  \* ResourceSystem::branch_states_
    calls,           \* calls made on this ResourceSystem
    regrown,         \* trees grown anew while this ResourceSystem lived
    hist             \* what each ResourceSystem operation did, in order

lvars == <<lparams, rng_, tropism_, current, gen_i>>
tvars == <<branches, root, all_branches>>
ivars == <<state, state_stack, current_branch, nsyms, nF, last, open_>>
rvars == <<rparams, branch_states_, calls, regrown, hist>>
vars == <<pc, lparams, rng_, tropism_, current, gen_i, branches, root,
          all_branches, state, state_stack, current_branch, nsyms, nF,
          last, open_, rparams, branch_states_, calls, regrown, hist>>

\* ----------------------------------------------------------------- Branch
NullPtr == 0

\* a shared_ptr<TropismSystem> that holds nothing
NoTropism == [null |-> TRUE]

\* Branch::Branch
Branch(start, direction, length, radius) ==
    [start_pos |-> start,
     direction |-> Normalized(direction),
     length |-> length,
     radius |-> radius,
     age |-> 0,
     depth |-> 0,
     parent |-> NullPtr,
     children |-> <<>>,
     curve_points |-> <<>>,
     light_exposure |-> Scale]

\* Branch::end_pos
end_pos(b) ==
    IF b.curve_points # <<>>
    THEN b.curve_points[Len(b.curve_points)]
    ELSE VAdd(b.start_pos, VScale(b.direction, b.length))

\* add_child that sets the parent link of the wrong branch
add_child_reversed(heap, this, child) ==
    [heap EXCEPT ![this].parent = child,
                 ![child].depth = heap[this].depth + 1,
                 ![this].children = Append(@, child)]

\* Branch::add_child, of the branch `this` on the branch `child`, on a heap
add_child(heap, this, child) ==
    [heap EXCEPT ![child].parent = this,
                 ![child].depth = heap[this].depth + 1,
                 ![this].children = Append(@, child)]

\* ------------------------------------------------------------------- Tree
\* Tree::add_branch
add_branch(list, b) == Append(list, b)

RECURSIVE collect_branches_recursive(_, _, _)
\* Tree::collect_branches_recursive: b and its descendants, in preorder;
\* fuel bounds the recursion on a heap whose children lists could cycle
collect_branches_recursive(heap, b, fuel) ==
    IF fuel = 0 THEN <<b>>
    ELSE LET kids == heap[b].children
             RECURSIVE Over(_)
             Over(i) == IF i > Len(kids) THEN <<>>
                        ELSE collect_branches_recursive(heap, kids[i], fuel - 1)
                             \o Over(i + 1)
         IN <<b>> \o Over(1)

\* Tree::get_all_branches
get_all_branches(heap, r) ==
    IF r = NullPtr THEN <<>>
    ELSE collect_branches_recursive(heap, r, Len(heap))

SeqToSet(s) == {s[i] : i \in 1..Len(s)}

\* ---------------------------------------------------------------- LSystem
\* TurtleState::TurtleState
TurtleState == [position |-> Vec3(0, 0, 0),
                direction |-> Vec3(0, Scale, 0),
                up |-> Vec3(0, 0, Scale),
                radius |-> Scale,
                depth |-> 0]

\* LSystem::random_float(min, max): one draw; with min = max the value is min
random_float(lo, hi) == lo

\* rotate_turtle that turns the direction and leaves the up vector
rotate_turtle_direction_only(st, angle_degrees, axis) ==
    LET rotation == from_axis_angle(axis, angle_degrees)
    IN [st EXCEPT !.direction = Normalized(QRotate(rotation, st.direction))]

\* LSystem::rotate_turtle
rotate_turtle(st, angle_degrees, axis) ==
    LET rotation == from_axis_angle(axis, angle_degrees)
    IN [st EXCEPT !.direction = Normalized(QRotate(rotation, st.direction)),
                  !.up = Normalized(QRotate(rotation, st.up))]

\* ---------------------------------------------------------- TropismSystem
\* Environment, with the light position and the ambient light it is given
Environment(light_position, ambient_light) ==
    [light_direction |-> Vec3(0, Scale, 0),
     gravity_direction |-> Vec3(0, -Scale, 0),
     light_position |-> light_position,
     ambient_light |-> ambient_light]

\* TropismParams::TropismParams, with the two switches as given
TropismParams(phototropism_enabled, gravitropism_enabled) ==
    [phototropism_strength |-> 800,
     response_distance |-> 5000,
     phototropism_enabled |-> phototropism_enabled,
     gravitropism_strength |-> 600,
     gravitropism_enabled |-> gravitropism_enabled,
     age_sensitivity |-> 500,
     apical_dominance |-> 650]

\* TropismSystem::TropismSystem
TropismSystem(params, env) == [params_ |-> params, environment_ |-> env]

\* TropismSystem::bend_toward_vector
bend_toward_vector(cur, target, strength) ==
    LET s == Clamp(strength, 0, Scale)
    IN Normalized(VAdd(VScale(cur, Scale - s), VScale(target, s)))

\* TropismSystem::apply_phototropism
apply_phototropism(t, current_direction, position) ==
    LET away == VSub(t.environment_.light_position, position)
        to_light == Normalized(away)
        distance == VLength(away)
        distance_falloff ==
            IF t.params_.response_distance > 0
            THEN FMax(0, Scale - FDiv(distance,
                                      t.params_.response_distance * 100))
            ELSE Scale
        alignment == Dot(current_direction, to_light)
        alignment_factor == Scale - FMul(FMax(0, alignment), 500)
        effective_strength ==
            FMul(FMul(t.params_.phototropism_strength, distance_falloff),
                 alignment_factor)
    IN bend_toward_vector(current_direction, to_light, effective_strength)

\* TropismSystem::apply_gravitropism
apply_gravitropism(t, current_direction, branch_depth) ==
    LET depth_factor ==
            Clamp(Scale - FDiv(t.params_.apical_dominance,
                               (branch_depth + 1) * Scale), 0, Scale)
        strength == FMul(t.params_.gravitropism_strength, depth_factor)
    IN IF branch_depth = 0
       THEN bend_toward_vector(current_direction, Vec3(0, Scale, 0),
                               FMul(strength, 500))
       ELSE bend_toward_vector(current_direction,
                               t.environment_.gravity_direction, strength)

\* TropismSystem::apply_tropism
apply_tropism(t, current_direction, position, branch_depth, branch_age) ==
    LET r0 == Normalized(current_direction)
        r1 == IF t.params_.phototropism_enabled
              THEN apply_phototropism(t, r0, position) ELSE r0
        r2 == IF t.params_.gravitropism_enabled
              THEN apply_gravitropism(t, r1, branch_depth) ELSE r1
    IN Normalized(r2)

\* compute_light_exposure without the ambient floor
compute_light_exposure_no_floor(t, position, direction) ==
    LET to_light == Normalized(VSub(t.environment_.light_position, position))
    IN Clamp(FMul(Dot(direction, to_light) + Scale, 500), 0, Scale)

\* TropismSystem::compute_light_exposure
compute_light_exposure(t, position, direction) ==
    LET to_light == Normalized(VSub(t.environment_.light_position, position))
        alignment == Dot(direction, to_light)
        exposure == FMul(alignment + Scale, 500)
    IN Clamp(FMax(exposure, t.environment_.ambient_light), 0, Scale)

\* ---------------------------------------------------------------- LSystem
\* the loop of apply_tropism_to_branch from segment i on:
\* <<curve_points, current_dir>>
RECURSIVE CurveLoop(_, _, _, _, _, _, _)
CurveLoop(br, num_segments, segment_length, i, points, pos, current_dir) ==
    IF i > num_segments THEN <<points, current_dir>>
    ELSE LET dir == apply_tropism(tropism_, current_dir, pos,
                                  br.depth, br.age)
             current_pos == VAdd(pos, VScale(dir, segment_length))
         IN CurveLoop(br, num_segments, segment_length, i + 1,
                      Append(points, current_pos), current_pos, dir)

\* apply_tropism_to_branch that leaves the start out of the curve
apply_tropism_to_branch_no_start(heap, b) ==
    IF tropism_ = NoTropism \/ lparams.curve_segments <= 0 THEN heap
    ELSE LET br == heap[b]
             num_segments == lparams.curve_segments
             segment_length == FDiv(br.length, num_segments * Scale)
             curve == CurveLoop(br, num_segments, segment_length, 1,
                                <<>>, br.start_pos, br.direction)
             mid_pos == VAdd(br.start_pos,
                             VScale(curve[2], FMul(br.length, 500)))
         IN [heap EXCEPT ![b].curve_points = curve[1],
                         ![b].direction = curve[2],
                         ![b].light_exposure =
                             compute_light_exposure(tropism_, mid_pos,
                                                    curve[2])]

\* LSystem::apply_tropism_to_branch
apply_tropism_to_branch(heap, b) ==
    IF tropism_ = NoTropism \/ lparams.curve_segments <= 0 THEN heap
    ELSE LET br == heap[b]
             num_segments == lparams.curve_segments
             segment_length == FDiv(br.length, num_segments * Scale)
             curve == CurveLoop(br, num_segments, segment_length, 1,
                                <<br.start_pos>>, br.start_pos, br.direction)
             mid_pos == VAdd(br.start_pos,
                             VScale(curve[2], FMul(br.length, 500)))
         IN [heap EXCEPT ![b].curve_points = curve[1],
                         ![b].direction = curve[2],
                         ![b].light_exposure =
                             compute_light_exposure(tropism_, mid_pos,
                                                    curve[2])]

\* the first branch of the flat list whose end is at pos, or 0
RECURSIVE FindAt(_, _, _, _)
FindAt(heap, list, pos, i) ==
    IF i > Len(list) THEN NullPtr
    ELSE IF VLength(VSub(end_pos(heap[list[i]]), pos)) < 1 THEN list[i]
    ELSE FindAt(heap, list, pos, i + 1)

InInterpret == pc = "interpret" /\ nsyms < MaxSyms

\* no symbol has been processed
NoSymbol == [symbol |-> ""]

\* the loop of interpret hands process_symbol the next symbol
Step(symbol) ==
    /\ nsyms' = nsyms + 1
    /\ nF' = IF symbol = "F" THEN nF + 1 ELSE nF
    /\ last' = [symbol |-> symbol,
                state |-> state,
                state_stack |-> state_stack,
                current_branch |-> current_branch,
                branches |-> branches,
                all_branches |-> all_branches,
                open |-> open_]
    /\ open_' = IF symbol = "["
                THEN Append(open_, [state |-> state,
                                    current_branch |-> current_branch])
                ELSE IF symbol = "]" /\ open_ # <<>>
                THEN SubSeq(open_, 1, Len(open_) - 1)
                ELSE open_
    /\ pc' = pc
    /\ UNCHANGED <<lparams, tropism_, current, gen_i, root>>
    /\ UNCHANGED rvars

\* process_symbol 'F'
Sym_F ==
    /\ InInterpret
    /\ Len(branches) < MaxBranches
    /\ LET length == lparams.segment_length
           radius == FMul(lparams.segment_radius, FPow(950, state.depth))
           new_branch == Len(branches) + 1
           made == [Branch(state.position, state.direction, length, radius)
                      EXCEPT !.depth = state.depth]
           heap1 == Append(branches, made)
           heap2 == IF current_branch # NullPtr
                    THEN add_child(heap1, current_branch, new_branch)
                    ELSE heap1
           heap3 == apply_tropism_to_branch(heap2, new_branch)
       IN /\ branches' = heap3
          /\ all_branches' = add_branch(all_branches, new_branch)
          /\ current_branch' = new_branch
          /\ state' = [state EXCEPT !.position = end_pos(heap3[new_branch])]
    /\ UNCHANGED <<state_stack, rng_>>
    /\ Step("F")

\* an 'f' that draws: it emits a branch as 'F' does
Sym_f_drawing ==
    /\ InInterpret
    /\ Len(branches) < MaxBranches
    /\ LET new_branch == Len(branches) + 1
           made == [Branch(state.position, state.direction,
                           lparams.segment_length, lparams.segment_radius)
                      EXCEPT !.depth = state.depth]
           heap == add_child(Append(branches, made), current_branch,
                             new_branch)
       IN /\ branches' = heap
          /\ all_branches' = add_branch(all_branches, new_branch)
          /\ current_branch' = new_branch
          /\ state' = [state EXCEPT !.position = end_pos(heap[new_branch])]
    /\ UNCHANGED <<state_stack, rng_>>
    /\ Step("f")

\* process_symbol 'f'
Sym_f ==
    /\ InInterpret
    /\ state' = [state EXCEPT !.position =
                   VAdd(state.position,
                        VScale(state.direction, lparams.segment_length))]
    /\ UNCHANGED <<branches, all_branches, state_stack, current_branch, rng_>>
    /\ Step("f")

TurnAngle == lparams.branch_angle
             + random_float(-lparams.angle_variation, lparams.angle_variation)

Turn(symbol, angle, axis, draws) ==
    /\ InInterpret
    /\ state' = rotate_turtle(state, angle, axis)
    /\ rng_' = rng_ + draws
    /\ UNCHANGED <<branches, all_branches, state_stack, current_branch>>
    /\ Step(symbol)

Right == Normalized(Cross(state.direction, state.up))

\* process_symbol '+'
Sym_plus == Turn("+", TurnAngle, state.up, 1)
\* process_symbol '-'
Sym_minus == Turn("-", -TurnAngle, state.up, 1)
\* process_symbol '&'
Sym_amp == Turn("&", TurnAngle, Right, 1)
\* process_symbol '^'
Sym_caret == Turn("^", -TurnAngle, Right, 1)
\* process_symbol '\'
Sym_backslash == Turn("\\", lparams.branch_angle, state.direction, 0)
\* process_symbol '/'
Sym_slash == Turn("/", -lparams.branch_angle, state.direction, 0)

\* a '[' that saves the state after raising its depth
Sym_push_late ==
    /\ InInterpret
    /\ state_stack' = Append(state_stack, [state EXCEPT !.depth = @ + 1])
    /\ state' = [state EXCEPT !.depth = @ + 1]
    /\ UNCHANGED <<branches, all_branches, current_branch, rng_>>
    /\ Step("[")

\* process_symbol '['
Sym_push ==
    /\ InInterpret
    /\ state_stack' = Append(state_stack, state)
    /\ state' = [state EXCEPT !.depth = @ + 1]
    /\ UNCHANGED <<branches, all_branches, current_branch, rng_>>
    /\ Step("[")

\* a ']' that puts the turtle back at its start when nothing was saved
Sym_pop_resetting ==
    /\ InInterpret
    /\ IF state_stack # <<>>
       THEN LET top == state_stack[Len(state_stack)]
                found == FindAt(branches, all_branches, top.position, 1)
            IN /\ state' = top
               /\ state_stack' = SubSeq(state_stack, 1, Len(state_stack) - 1)
               /\ current_branch' = IF found # NullPtr THEN found
                                    ELSE current_branch
       ELSE /\ state' = TurtleState
            /\ UNCHANGED <<state_stack, current_branch>>
    /\ UNCHANGED <<branches, all_branches, rng_>>
    /\ Step("]")

\* process_symbol ']'
Sym_pop ==
    /\ InInterpret
    /\ IF state_stack # <<>>
       THEN LET top == state_stack[Len(state_stack)]
                found == FindAt(branches, all_branches, top.position, 1)
            IN /\ state' = top
               /\ state_stack' = SubSeq(state_stack, 1, Len(state_stack) - 1)
               /\ current_branch' = IF found # NullPtr THEN found
                                    ELSE current_branch
       ELSE UNCHANGED <<state, state_stack, current_branch>>
    /\ UNCHANGED <<branches, all_branches, rng_>>
    /\ Step("]")

\* an unknown character taken for a move forward
Sym_other_moving ==
    /\ InInterpret
    /\ state' = [state EXCEPT !.position =
                   VAdd(state.position,
                        VScale(state.direction, lparams.segment_length))]
    /\ UNCHANGED <<branches, all_branches, state_stack, current_branch, rng_>>
    /\ Step("X")

\* process_symbol on any other character
Sym_other ==
    /\ InInterpret
    /\ UNCHANGED <<branches, all_branches, state, state_stack,
                   current_branch, rng_>>
    /\ Step("X")

\* LSystem::interpret returns the tree; its locals go out of scope
interpret_return ==
    /\ pc = "interpret"
    /\ pc' = "tree"
    /\ state' = TurtleState
    /\ state_stack' = <<>>
    /\ current_branch' = NullPtr
    /\ nsyms' = 0
    /\ last' = NoSymbol
    /\ open_' = <<>>
    /\ UNCHANGED nF
    /\ UNCHANGED lvars
    /\ UNCHANGED tvars
    /\ UNCHANGED rvars

\* --------------------------------------------------------- ResourceSystem
\* ResourceParams, with its default member initializers
ResourceParams ==
    [light_competition_enabled |-> TRUE,
     base_light_level |-> 1000,
     occlusion_radius |-> 2000,
     occlusion_falloff |-> 500,
     photosynthesis_efficiency |-> 1000,
     resource_transport_rate |-> 800,
     maintenance_cost |-> 100,
     pruning_enabled |-> TRUE,
     min_light_threshold |-> 150,
     min_resource_threshold |-> 200,
     pruning_grace_period |-> 2,
     competition_radius |-> 1500,
     dominance_factor |-> 700]

\* ResourceState, with its default member initializers
ResourceState ==
    [light_capture |-> 1000,
     resource_balance |-> 1000,
     accumulated_deficit |-> 0,
     marked_for_pruning |-> FALSE,
     deficit_duration |-> 0]

MAX_BRANCHES_FOR_FULL_CHECK == 1000
MAX_BRANCHES_FOR_COMPETITION == 1000

\* what one other branch, ending at other_pos, adds to the occlusion of a
\* branch ending at branch_pos: <<to total_occlusion, to occluder_count>>
OcclusionBy(p, branch_pos, other_pos) ==
    IF other_pos.y <= branch_pos.y THEN <<0, 0>>
    ELSE CHOOSE r \in
           {IF distance < p.occlusion_radius
            THEN LET diff == VSub(other_pos, branch_pos)
                     height_diff == other_pos.y - branch_pos.y
                     horizontal_dist ==
                         ISqrt(diff.x * diff.x + diff.z * diff.z)
                     occlusion_factor ==
                         Clamp(FDiv(height_diff, horizontal_dist + 100),
                               0, Scale)
                     falloff == Scale - FDiv(distance, p.occlusion_radius)
                 IN <<FMul(FMul(occlusion_factor, falloff),
                           p.occlusion_falloff), 1>>
            ELSE <<0, 0>> :
              distance \in {VLength(VSub(other_pos, branch_pos))}} : TRUE

\* ResourceSystem::calculate_occlusion of the branch b among the list
calculate_occlusion(p, heap, list, b) ==
    CHOOSE o \in
      {LET \* <<total_occlusion, occluder_count>> after the others from i on
           RECURSIVE Loop(_, _, _)
           Loop(i, total, count) ==
               IF i > Len(list) THEN <<total, count>>
               ELSE IF list[i] = b THEN Loop(i + 1, total, count)
               ELSE CHOOSE r \in
                      {Loop(i + 1, total + by[1], count + by[2]) :
                         by \in {OcclusionBy(p, branch_pos, other_pos) :
                                   other_pos \in {end_pos(heap[list[i]])}}} :
                      TRUE
       IN CHOOSE t \in
            {IF r[2] > 0 THEN FMin(900, FDiv(r[1], FSqrt(r[2] * Scale)))
             ELSE r[1] : r \in {Loop(1, 0, 0)}} : TRUE :
         branch_pos \in {end_pos(heap[b])}} : TRUE

\* ResourceSystem::calculate_light_capture: the new states
calculate_light_capture(p, heap, list, states) ==
    LET use_sampling == Len(list) > MAX_BRANCHES_FOR_FULL_CHECK
        Light(i) ==
            LET br == heap[list[i]]
                pos == end_pos(br)
                depth_factor == FDiv(FMin(10, br.depth) * Scale, 10 * Scale)
                height_factor ==
                    Clamp(FDiv(pos.y + 10 * Scale, 20 * Scale), 0, Scale)
                occlusion ==
                    IF use_sampling
                    THEN FMul(FMul(depth_factor,
                                   Scale - FMul(height_factor, 500)), 500)
                    ELSE calculate_occlusion(p, heap, list, list[i])
                up == Vec3(0, Scale, 0)
                orientation_bonus == FMul(FMax(0, Dot(br.direction, up)), 300)
            IN Clamp(FMul(p.base_light_level, Scale - occlusion)
                     + orientation_bonus, 0, Scale)
    IN [i \in 1..Len(states) |->
          IF i <= Len(list)
          THEN [states[i] EXCEPT !.light_capture = Light(i)]
          ELSE states[i]]

\* what one other branch, ending at other_pos, adds to the competition on a
\* branch ending at branch_pos: <<to competition, to competitor_count>>
CompetitionBy(p, branch_pos, other_pos) ==
    CHOOSE r \in
      {IF distance < p.competition_radius
       THEN LET height_advantage ==
                    FMul(other_pos.y - branch_pos.y, p.dominance_factor)
                base == Scale - FDiv(distance, p.competition_radius)
                competition_strength ==
                    IF height_advantage > 0
                    THEN FMul(base, Scale + height_advantage)
                    ELSE base
            IN <<competition_strength, 1>>
       ELSE <<0, 0>> :
         distance \in {VLength(VSub(other_pos, branch_pos))}} : TRUE

\* ResourceSystem::calculate_competition_factor
calculate_competition_factor(p, heap, list, b) ==
    CHOOSE c \in
      {LET RECURSIVE Loop(_, _, _)
           Loop(i, competition, count) ==
               IF i > Len(list) THEN <<competition, count>>
               ELSE IF list[i] = b THEN Loop(i + 1, competition, count)
               ELSE CHOOSE r \in
                      {Loop(i + 1, competition + by[1], count + by[2]) :
                         by \in {CompetitionBy(p, branch_pos, other_pos) :
                                   other_pos \in {end_pos(heap[list[i]])}}} :
                      TRUE
       IN CHOOSE t \in
            {IF r[2] > 0 THEN FMin(800, RDiv(r[1], r[2])) ELSE r[1] :
               r \in {Loop(1, 0, 0)}} : TRUE :
         branch_pos \in {end_pos(heap[b])}} : TRUE

\* ResourceSystem::apply_competition: the new states
apply_competition(p, heap, list, states) ==
    IF Len(list) > MAX_BRANCHES_FOR_COMPETITION THEN states
    ELSE [i \in 1..Len(states) |->
            IF i <= Len(list)
            THEN LET competition ==
                         calculate_competition_factor(p, heap, list, list[i])
                 IN [states[i] EXCEPT !.light_capture =
                       FMul(@, Scale - FMul(competition, 500))]
            ELSE states[i]]

\* ResourceSystem::calculate_photosynthesis
calculate_photosynthesis(p, br, light_capture) ==
    LET surface_area == FMul(FMul(br.length, br.radius), 2 * Scale)
    IN FMul(FMul(light_capture, surface_area), p.photosynthesis_efficiency)

\* ResourceSystem::calculate_maintenance_cost
calculate_maintenance_cost(p, br) ==
    LET volume == FMul(FMul(FMul(br.length, br.radius), br.radius), 3142)
        cost == FMul(volume, p.maintenance_cost)
        age_factor == Scale + FMul(br.age * Scale, 50)
    IN FMul(cost, age_factor)

\* a step that takes any cycle without deficit for a full recovery
FlowOne_forgetting(p, br, st) ==
    CHOOSE s \in
      {IF balance < 0
       THEN [st EXCEPT !.resource_balance = balance,
                       !.accumulated_deficit = @ + (-balance),
                       !.deficit_duration = @ + 1]
       ELSE [st EXCEPT !.resource_balance = balance,
                       !.accumulated_deficit = decayed,
                       !.deficit_duration = 0] :
         balance \in {calculate_photosynthesis(p, br, st.light_capture)
                      - calculate_maintenance_cost(p, br)},
         decayed \in {FMul(st.accumulated_deficit, 800)}} : TRUE

\* one branch's step of ResourceSystem::calculate_resource_flow
FlowOne(p, br, st) ==
    CHOOSE s \in
      {IF balance < 0
       THEN [st EXCEPT !.resource_balance = balance,
                       !.accumulated_deficit = @ + (-balance),
                       !.deficit_duration = @ + 1]
       ELSE [st EXCEPT !.resource_balance = balance,
                       !.accumulated_deficit = decayed,
                       !.deficit_duration = IF decayed < 10 THEN 0 ELSE @] :
         balance \in {calculate_photosynthesis(p, br, st.light_capture)
                      - calculate_maintenance_cost(p, br)},
         decayed \in {FMul(st.accumulated_deficit, 800)}} : TRUE

\* ResourceSystem::calculate_resource_flow: the new states
calculate_resource_flow(p, heap, list, states) ==
    [i \in 1..Len(states) |->
       IF i <= Len(list) THEN FlowOne(p, heap[list[i]], states[i])
       ELSE states[i]]

\* should_prune without its two depth guards
should_prune_no_floor(p, br, st) ==
    IF st.light_capture < p.min_light_threshold THEN TRUE
    ELSE IF /\ st.resource_balance < p.min_resource_threshold
            /\ st.deficit_duration >= 2 THEN TRUE
    ELSE FALSE

\* should_prune that takes one cycle of deficit for a sustained one
should_prune_one_cycle(p, br, st) ==
    IF br.depth <= 1 THEN FALSE
    ELSE IF br.depth < p.pruning_grace_period + 2 THEN FALSE
    ELSE IF st.light_capture < p.min_light_threshold THEN TRUE
    ELSE IF /\ st.resource_balance < p.min_resource_threshold
            /\ st.deficit_duration >= 1 THEN TRUE
    ELSE FALSE

\* should_prune that has lost its light test
should_prune_deficit_only(p, br, st) ==
    IF br.depth <= 1 THEN FALSE
    ELSE IF br.depth < p.pruning_grace_period + 2 THEN FALSE
    ELSE IF /\ st.resource_balance < p.min_resource_threshold
            /\ st.deficit_duration >= 2 THEN TRUE
    ELSE FALSE

\* ResourceSystem::should_prune
should_prune(p, br, st) ==
    IF br.depth <= 1 THEN FALSE
    ELSE IF br.depth < p.pruning_grace_period + 2 THEN FALSE
    ELSE IF st.light_capture < p.min_light_threshold THEN TRUE
    ELSE IF /\ st.resource_balance < p.min_resource_threshold
            /\ st.deficit_duration >= 2 THEN TRUE
    ELSE FALSE

\* ResourceSystem::evaluate_pruning: the new states
evaluate_pruning(p, heap, list, states) ==
    [i \in 1..Len(states) |->
       IF i <= Len(list) /\ should_prune(p, heap[list[i]], states[i])
       THEN [states[i] EXCEPT !.marked_for_pruning = TRUE]
       ELSE states[i]]

\* the states calculate_resources starts from: resized and reset when the
\* count differs from the branch count
InitStates(list, states) ==
    IF Len(states) # Len(list)
    THEN [i \in 1..Len(list) |-> ResourceState]
    ELSE states

\* calculate_resources that evaluates pruning whatever pruning_enabled is
calculate_resources_pruning(p, heap, list, states) ==
    CHOOSE s4 \in
      {evaluate_pruning(p, heap, list, s3) \o <<>> :
         s3 \in
           {calculate_resource_flow(p, heap, list, s2) \o <<>> :
              s2 \in
                {apply_competition(p, heap, list, s1) \o <<>> :
                   s1 \in
                     {IF p.light_competition_enabled
                      THEN calculate_light_capture(p, heap, list, s0) \o <<>>
                      ELSE s0 :
                        s0 \in {InitStates(list, states) \o <<>>}}}}} : TRUE

\* ResourceSystem::calculate_resources on a non-empty list: the new states.
\* Each stage works on the array the stage before it left.
calculate_resources(p, heap, list, states) ==
    CHOOSE s4 \in
      {IF p.pruning_enabled
       THEN evaluate_pruning(p, heap, list, s3) \o <<>>
       ELSE s3 :
         s3 \in
           {calculate_resource_flow(p, heap, list, s2) \o <<>> :
              s2 \in
                {apply_competition(p, heap, list, s1) \o <<>> :
                   s1 \in
                     {IF p.light_competition_enabled
                      THEN calculate_light_capture(p, heap, list, s0) \o <<>>
                      ELSE s0 :
                        s0 \in {InitStates(list, states) \o <<>>}}}}} : TRUE

\* an update loop that stops one branch short of the end of the list
UpdateExposure_short(heap, list, states) ==
    [b \in DOMAIN heap |->
       IF \E i \in 1..(Len(list) - 1) : list[i] = b
       THEN [heap[b] EXCEPT !.light_exposure =
               states[CHOOSE i \in 1..(Len(list) - 1) :
                        /\ list[i] = b
                        /\ \A j \in (i + 1)..(Len(list) - 1) : list[j] # b
                     ].light_capture]
       ELSE heap[b]]

\* the end of calculate_resources: every branch's light_exposure is set
UpdateExposure(heap, list, states) ==
    [b \in DOMAIN heap |->
       IF \E i \in 1..Len(list) : list[i] = b
       THEN [heap[b] EXCEPT !.light_exposure =
               states[CHOOSE i \in 1..Len(list) :
                        /\ list[i] = b
                        /\ \A j \in (i + 1)..Len(list) : list[j] # b
                     ].light_capture]
       ELSE heap[b]]

\* ResourceSystem::identify_pruned_branches: indices, ascending (from 1)
identify_pruned_branches(states) ==
    LET RECURSIVE Loop(_)
        Loop(i) == IF i > Len(states) THEN <<>>
                   ELSE IF states[i].marked_for_pruning
                   THEN <<i>> \o Loop(i + 1)
                   ELSE Loop(i + 1)
    IN Loop(1)

\* ------------------------------------------------------ shared ownership
\* a destroyed Branch object
Freed == [freed |-> TRUE]
IsLive(heap, b) == b \in DOMAIN heap /\ "freed" \notin DOMAIN heap[b]

RECURSIVE Closure(_, _)
\* the branches some chain of shared_ptr children lists reaches from S
Closure(heap, S) ==
    CHOOSE c \in {IF more = S THEN S ELSE Closure(heap, more) :
                    more \in {S \cup UNION {SeqToSet(heap[b].children) :
                                              b \in S}}} : TRUE

\* the objects some shared_ptr still owns: Tree::root, Tree::all_branches
\* and the children lists of owned objects; the others are destroyed
Release(heap, r, list) ==
    LET owned == Closure(heap, (IF r = NullPtr THEN {} ELSE {r})
                               \cup SeqToSet(list))
    IN [b \in DOMAIN heap |-> IF b \in owned THEN heap[b] ELSE Freed]

\* ------------------------------------------------------------------- Tree
RemoveAll(seq, b) == SelectSeq(seq, LAMBDA c : c # b)

\* the pruning loop of Tree::apply_resource_simulation over pruned_ids:
\* <<heap, whether a destroyed parent was dereferenced>>
RECURSIVE DetachLoop(_, _, _, _, _)
DetachLoop(heap, list, pruned_ids, k, dangling) ==
    IF k > Len(pruned_ids) THEN <<heap, dangling>>
    ELSE LET id == pruned_ids[k]
         IN IF id >= 1 /\ id <= Len(list)
            THEN LET branch == list[id]
                     parent == heap[branch].parent
                 IN IF parent = NullPtr
                    THEN DetachLoop(heap, list, pruned_ids, k + 1, dangling)
                    ELSE IF ~IsLive(heap, parent)
                    THEN DetachLoop(heap, list, pruned_ids, k + 1, TRUE)
                    ELSE DetachLoop(
                           [heap EXCEPT ![parent].children =
                              RemoveAll(@, branch)],
                           list, pruned_ids, k + 1, dangling)
            ELSE DetachLoop(heap, list, pruned_ids, k + 1, dangling)

\* a rebuild that compares branch indices counted from 0 with pruned_ids
\* counted from 1
Surviving_shifted(list, pruned_ids) ==
    LET RECURSIVE Loop(_)
        Loop(i) == IF i > Len(list) THEN <<>>
                   ELSE IF (i - 1) \in SeqToSet(pruned_ids) THEN Loop(i + 1)
                   ELSE <<list[i]>> \o Loop(i + 1)
    IN Loop(1)

\* the rebuild of all_branches without the pruned indices
Surviving(list, pruned_ids) ==
    LET RECURSIVE Loop(_)
        Loop(i) == IF i > Len(list) THEN <<>>
                   ELSE IF i \in SeqToSet(pruned_ids) THEN Loop(i + 1)
                   ELSE <<list[i]>> \o Loop(i + 1)
    IN Loop(1)

\* what one simulate call did, for the record
CallRecord(list, heap, states, pruned_ids, after) ==
    [op |-> "simulate",
     before |-> list,
     depth |-> [i \in 1..Len(list) |-> heap[list[i]].depth],
     parent |-> [i \in 1..Len(list) |-> heap[list[i]].parent],
     states |-> states,
     pruned_ids |-> pruned_ids,
     marked |-> {list[i] : i \in SeqToSet(pruned_ids) \cap (1..Len(list))},
     after |-> after]

\* Tree::apply_resource_simulation.  Dereferencing the dangling parent
\* pointer of a branch whose parent was destroyed is undefined: the call
\* either faults or completes without touching any live object.
apply_resource_simulation ==
    /\ pc = "sim"
    /\ calls < MaxCalls
    /\ calls' = calls + 1
    /\ IF all_branches = <<>>
       THEN /\ hist' = Append(hist, CallRecord(<<>>, branches, branch_states_,
                                               <<>>, <<>>))
            /\ UNCHANGED <<pc, branches, all_branches, branch_states_>>
       ELSE \E states \in {calculate_resources(rparams, branches,
                                               all_branches, branch_states_)} :
            \E heap1 \in {UpdateExposure(branches, all_branches, states)
                           \o <<>>} :
            \E pruned_ids \in {identify_pruned_branches(states)} :
            \E detached \in {DetachLoop(heap1, all_branches, pruned_ids, 1,
                                        FALSE)} :
            \E survivors \in {IF pruned_ids # <<>>
                              THEN Surviving(all_branches, pruned_ids)
                              ELSE all_branches} :
               /\ branch_states_' = states
               /\ hist' = Append(hist, CallRecord(all_branches, heap1, states,
                                                  pruned_ids, survivors))
               /\ \E fault \in {FALSE, detached[2]} :
                    IF fault
                    THEN /\ pc' = "fault"
                         /\ UNCHANGED <<branches, all_branches>>
                    ELSE /\ pc' = pc
                         /\ all_branches' = survivors
                         /\ branches' = Release(detached[1], root, survivors)
    /\ UNCHANGED <<root, rparams, regrown>>
    /\ UNCHANGED lvars
    /\ UNCHANGED ivars

\* ResourceSystem::reset
reset ==
    /\ pc = "sim"
    /\ calls < MaxCalls
    /\ branch_states_ # <<>>
    /\ calls' = calls + 1
    /\ branch_states_' = <<>>
    /\ hist' = Append(hist, [op |-> "reset"])
    /\ UNCHANGED <<pc, rparams, regrown>>
    /\ UNCHANGED lvars
    /\ UNCHANGED tvars
    /\ UNCHANGED ivars

\* the pruning settings the model draws from:
\* <<pruning_grace_period, maintenance_cost, min_light_threshold>>;
\* the last one is the defaults
PruningChoices ==
    {<<0, 100, 800>>, <<0, 5000, 150>>, <<1, 5000, 800>>, <<2, 100, 150>>}

\* the parameter sets a ResourceSystem is constructed with
ParamChoices ==
    {[ResourceParams EXCEPT !.light_competition_enabled = lc,
                            !.pruning_enabled = pe,
                            !.pruning_grace_period = c[1],
                            !.maintenance_cost = c[2],
                            !.min_light_threshold = c[3]] :
       lc \in BOOLEAN, pe \in BOOLEAN, c \in PruningChoices}

\* ResourceSystem::ResourceSystem, for the tree interpret returned
ResourceSystem_ctor ==
    /\ pc = "tree"
    /\ pc' = "sim"
    /\ \E p \in ParamChoices : rparams' = p
    /\ branch_states_' = <<>>
    /\ calls' = 0
    /\ regrown' = 0
    /\ hist' = <<>>
    /\ UNCHANGED lvars
    /\ UNCHANGED tvars
    /\ UNCHANGED ivars

\* ---------------------------------------------------------------- LSystem
\* the rule tables the model draws from
RuleChoices ==
    {<<>>,
     [c \in {"F"} |-> <<"F", "[", "+", "F", "]", "F">>],
     [c \in {"F", "X"} |-> IF c = "F" THEN <<"F", "F">> ELSE <<"F", "X">>],
     [c \in {"+"} |-> <<>>]}

LSystemParams(axiom, rules, iterations, random_seed, stochastic_variation) ==
    [axiom |-> axiom,
     rules |-> rules,
     iterations |-> iterations,
     segment_length |-> 1000,
     segment_radius |-> 100,
     branch_angle |-> 90,
     angle_variation |-> 0,
     random_seed |-> random_seed,
     stochastic_variation |-> stochastic_variation,
     curve_segments |-> 0]

\* the characters an axiom is drawn from
AxiomAlphabet == {"F", "X", "+", "["}

\* the strings over a set of characters, up to a length
RECURSIVE Strings(_, _)
Strings(alphabet, n) ==
    IF n = 0 THEN {<<>>}
    ELSE LET shorter == Strings(alphabet, n - 1)
         IN shorter \cup {Append(w, c) : w \in shorter, c \in alphabet}

\* the value std::mt19937 seeded with seed yields at its n-th draw, mapped
\* by uniform_real_distribution to [0, 1): a stand-in generator, every
\* draw of which depends on the seed and on the number of draws before it
RngValue(seed, n) == (seed * 389 + n * 617 + 271) % Scale

\* LSystem::random_chance at generator state n
random_chance(seed, n, probability) == RngValue(seed, n) < probability

\* apply_rules that drops the characters that have no rule
RECURSIVE apply_rules_dropping(_, _, _, _)
apply_rules_dropping(lp, input, output, n) ==
    IF input = <<>> THEN <<output, n>>
    ELSE LET c == Head(input)
         IN IF c \in DOMAIN lp.rules
            THEN apply_rules_dropping(lp, Tail(input), output \o lp.rules[c],
                                      IF lp.stochastic_variation > 0
                                      THEN n + 1 ELSE n)
            ELSE apply_rules_dropping(lp, Tail(input), output, n)

\* apply_rules whose variation keeps the character instead of rewriting it
RECURSIVE apply_rules_varying(_, _, _, _)
apply_rules_varying(lp, input, output, n) ==
    IF input = <<>> THEN <<output, n>>
    ELSE LET c == Head(input)
         IN IF c \in DOMAIN lp.rules
            THEN IF lp.stochastic_variation > 0
                 THEN IF random_chance(lp.random_seed, n,
                                       lp.stochastic_variation)
                      THEN apply_rules_varying(lp, Tail(input),
                                               Append(output, c), n + 1)
                      ELSE apply_rules_varying(lp, Tail(input),
                                               output \o lp.rules[c], n + 1)
                 ELSE apply_rules_varying(lp, Tail(input),
                                          output \o lp.rules[c], n)
            ELSE apply_rules_varying(lp, Tail(input), Append(output, c), n)

\* apply_rules that draws for every rewritten character, variation or not
RECURSIVE apply_rules_drawing(_, _, _, _)
apply_rules_drawing(lp, input, output, n) ==
    IF input = <<>> THEN <<output, n>>
    ELSE LET c == Head(input)
         IN IF c \in DOMAIN lp.rules
            THEN apply_rules_drawing(lp, Tail(input), output \o lp.rules[c],
                                     n + 1)
            ELSE apply_rules_drawing(lp, Tail(input), Append(output, c), n)

\* LSystem::apply_rules at generator state n: <<output, generator state>>
RECURSIVE apply_rules(_, _, _, _)
apply_rules(lp, input, output, n) ==
    IF input = <<>> THEN <<output, n>>
    ELSE LET c == Head(input)
         IN IF c \in DOMAIN lp.rules
            THEN IF lp.stochastic_variation > 0
                 THEN IF random_chance(lp.random_seed, n,
                                       lp.stochastic_variation)
                      THEN apply_rules(lp, Tail(input),
                                       output \o lp.rules[c], n + 1)
                      ELSE apply_rules(lp, Tail(input),
                                       output \o lp.rules[c], n + 1)
                 ELSE apply_rules(lp, Tail(input), output \o lp.rules[c], n)
            ELSE apply_rules(lp, Tail(input), Append(output, c), n)

\* a loop condition that is off by one
MorePasses_inclusive(i, iterations) == i <= iterations

\* the loop condition of LSystem::generate
MorePasses(i, iterations) == i < iterations

\* LSystem::generate as a function of the parameters, on a generator that
\* has made n draws: the loop from pass i on
RECURSIVE generate_loop(_, _, _, _)
generate_loop(lp, cur, i, n) ==
    IF MorePasses(i, lp.iterations)
    THEN LET r == apply_rules(lp, cur, <<>>, n)
         IN generate_loop(lp, r[1], i + 1, r[2])
    ELSE cur

\* LSystem::generate on a newly constructed LSystem
generate(lp) == generate_loop(lp, lp.axiom, 0, 0)

\* the seeds and the variation probabilities an LSystem is constructed with
Seeds == {0, 1}
Variations == {0, 500}

\* LSystem::generate up to its loop
generate_begin ==
    /\ pc = "lsystem"
    /\ pc' = "generate"
    /\ current' = lparams.axiom
    /\ gen_i' = 0
    /\ UNCHANGED <<lparams, rng_, tropism_>>
    /\ UNCHANGED tvars
    /\ UNCHANGED ivars
    /\ UNCHANGED rvars

\* one pass of the loop of LSystem::generate
generate_pass ==
    /\ pc = "generate"
    /\ MorePasses(gen_i, lparams.iterations)
    /\ \E r \in {apply_rules(lparams, current, <<>>, rng_)} :
         /\ current' = r[1]
         /\ rng_' = r[2]
    /\ gen_i' = gen_i + 1
    /\ UNCHANGED <<pc, lparams, tropism_>>
    /\ UNCHANGED tvars
    /\ UNCHANGED ivars
    /\ UNCHANGED rvars

\* LSystem::generate returns current
generate_return ==
    /\ pc = "generate"
    /\ ~MorePasses(gen_i, lparams.iterations)
    /\ pc' = "generated"
    /\ UNCHANGED lvars
    /\ UNCHANGED tvars
    /\ UNCHANGED ivars
    /\ UNCHANGED rvars

\* LSystem::interpret up to its loop: the root branch is made
interpret_begin ==
    /\ pc = "lsystem"
    /\ pc' = "interpret"
    /\ LET made == Branch(Vec3(0, 0, 0), Vec3(0, Scale, 0),
                          lparams.segment_length, lparams.segment_radius)
       IN /\ branches' = <<made>>
          /\ root' = 1
          /\ all_branches' = add_branch(<<>>, 1)
          /\ current_branch' = 1
          /\ state' = [TurtleState EXCEPT !.position = end_pos(made)]
    /\ state_stack' = <<>>
    /\ nsyms' = 0
    /\ nF' = 0
    /\ last' = NoSymbol
    /\ open_' = <<>>
    /\ UNCHANGED lvars
    /\ UNCHANGED rvars

\* -------------------------------------------------------- specification
\* an LSystem has been constructed; nothing else exists yet
Init ==
    /\ pc = "lsystem"
    /\ lparams = LSystemParams(<<"F">>, <<>>, 0, 0, 0)
    /\ rng_ = 0
    /\ tropism_ = NoTropism
    /\ current = <<>>
    /\ gen_i = 0
    /\ branches = <<>>
    /\ root = NullPtr
    /\ all_branches = <<>>
    /\ state = TurtleState
    /\ state_stack = <<>>
    /\ current_branch = NullPtr
    /\ nsyms = 0
    /\ nF = 0
    /\ last = NoSymbol
    /\ open_ = <<>>
    /\ rparams = ResourceParams
    /\ branch_states_ = <<>>
    /\ calls = 0
    /\ regrown = 0
    /\ hist = <<>>

Next ==
    \/ interpret_begin
    \/ Sym_F
    \/ Sym_f
    \/ Sym_plus
    \/ Sym_minus
    \/ Sym_amp
    \/ Sym_caret
    \/ Sym_backslash
    \/ Sym_slash
    \/ Sym_push
    \/ Sym_pop
    \/ Sym_other
    \/ interpret_return
    \/ ResourceSystem_ctor
    \/ apply_resource_simulation
    \/ reset

Spec == Init /\ [][Next]_vars

\* the grammar engine alone: an LSystem with any of the drawn parameters,
\* on which generate is called
InitGen ==
    /\ pc = "lsystem"
    /\ \E axiom \in Strings(AxiomAlphabet, MaxAxiom), rules \in RuleChoices,
          iterations \in 0..MaxIter, seed \in Seeds,
          stochastic_variation \in Variations :
         lparams = LSystemParams(axiom, rules, iterations, seed,
                                 stochastic_variation)
    /\ rng_ = 0
    /\ tropism_ = NoTropism
    /\ current = <<>>
    /\ gen_i = 0
    /\ branches = <<>>
    /\ root = NullPtr
    /\ all_branches = <<>>
    /\ state = TurtleState
    /\ state_stack = <<>>
    /\ current_branch = NullPtr
    /\ nsyms = 0
    /\ nF = 0
    /\ last = NoSymbol
    /\ open_ = <<>>
    /\ rparams = ResourceParams
    /\ branch_states_ = <<>>
    /\ calls = 0
    /\ regrown = 0
    /\ hist = <<>>

NextGen ==
    \/ generate_begin
    \/ generate_pass
    \/ generate_return

SpecGen == InitGen /\ [][NextGen]_vars

\* the branch angles, in degrees, the turtle alone is run with
TurnAngles == {45, 90}

\* the interpreter alone: an LSystem with any of the drawn branch angles,
\* on which interpret is called
InitTurn ==
    /\ pc = "lsystem"
    /\ \E angle \in TurnAngles :
         lparams = [LSystemParams(<<"F">>, <<>>, 0, 0, 0)
                      EXCEPT !.branch_angle = angle]
    /\ rng_ = 0
    /\ tropism_ = NoTropism
    /\ current = <<>>
    /\ gen_i = 0
    /\ branches = <<>>
    /\ root = NullPtr
    /\ all_branches = <<>>
    /\ state = TurtleState
    /\ state_stack = <<>>
    /\ current_branch = NullPtr
    /\ nsyms = 0
    /\ nF = 0
    /\ last = NoSymbol
    /\ open_ = <<>>
    /\ rparams = ResourceParams
    /\ branch_states_ = <<>>
    /\ calls = 0
    /\ regrown = 0
    /\ hist = <<>>

NextTurn ==
    \/ interpret_begin
    \/ Sym_F
    \/ Sym_f
    \/ Sym_plus
    \/ Sym_minus
    \/ Sym_amp
    \/ Sym_caret
    \/ Sym_backslash
    \/ Sym_slash
    \/ Sym_push
    \/ Sym_pop
    \/ Sym_other
    \/ interpret_return

SpecTurn == InitTurn /\ [][NextTurn]_vars

\* the tropism systems the model attaches
TropismChoices ==
    {TropismSystem(TropismParams(TRUE, TRUE),
                   Environment(Vec3(0, 20 * Scale, 0), 200)),
     TropismSystem(TropismParams(TRUE, FALSE),
                   Environment(Vec3(2 * Scale, Scale, 0), 0)),
     TropismSystem(TropismParams(FALSE, TRUE),
                   Environment(Vec3(0, -5 * Scale, 0), Scale)),
     TropismSystem(TropismParams(FALSE, FALSE),
                   Environment(Vec3(0, -5 * Scale, 0), 500))}

\* the curve_segments an LSystem is constructed with
CurveChoices == {0, 1, 2}

\* LSystem::set_tropism, before interpret is called
set_tropism ==
    /\ pc = "lsystem"
    /\ tropism_ = NoTropism
    /\ \E t \in TropismChoices : tropism_' = t
    /\ UNCHANGED <<pc, lparams, rng_, current, gen_i>>
    /\ UNCHANGED tvars
    /\ UNCHANGED ivars
    /\ UNCHANGED rvars

\* the interpreter with a tropism system: an LSystem with any of the drawn
\* curve_segments, to which a TropismSystem may be attached before
\* interpret is called
InitTropism ==
    /\ pc = "lsystem"
    /\ \E segments \in CurveChoices :
         lparams = [LSystemParams(<<"F">>, <<>>, 0, 0, 0)
                      EXCEPT !.curve_segments = segments]
    /\ rng_ = 0
    /\ tropism_ = NoTropism
    /\ current = <<>>
    /\ gen_i = 0
    /\ branches = <<>>
    /\ root = NullPtr
    /\ all_branches = <<>>
    /\ state = TurtleState
    /\ state_stack = <<>>
    /\ current_branch = NullPtr
    /\ nsyms = 0
    /\ nF = 0
    /\ last = NoSymbol
    /\ open_ = <<>>
    /\ rparams = ResourceParams
    /\ branch_states_ = <<>>
    /\ calls = 0
    /\ regrown = 0
    /\ hist = <<>>

NextTropism ==
    \/ set_tropism
    \/ interpret_begin
    \/ Sym_F
    \/ Sym_plus
    \/ Sym_amp
    \/ Sym_push
    \/ Sym_pop
    \/ interpret_return

SpecTropism == InitTropism /\ [][NextTropism]_vars

\* LSystem::interpret is to be called again, for a new tree, while the
\* ResourceSystem that simulated the last one lives on without a reset()
regrow ==
    /\ pc = "sim"
    /\ regrown < MaxRegrow
    /\ branch_states_ # <<>>
    /\ pc' = "lsystem"
    /\ regrown' = regrown + 1
    /\ UNCHANGED <<rparams, branch_states_, calls, hist>>
    /\ UNCHANGED lvars
    /\ UNCHANGED tvars
    /\ UNCHANGED ivars

\* the caller goes on to simulate the new tree with the ResourceSystem it
\* has: Tree::apply_resource_simulation takes the system by reference
hand_over ==
    /\ pc = "tree"
    /\ regrown > 0
    /\ pc' = "sim"
    /\ UNCHANGED lvars
    /\ UNCHANGED tvars
    /\ UNCHANGED ivars
    /\ UNCHANGED rvars

\* trees grown and simulated one after the other: the tree is regrown
\* between simulate calls on one ResourceSystem
NextRegrow ==
    \/ interpret_begin
    \/ Sym_F
    \/ Sym_push
    \/ Sym_pop
    \/ interpret_return
    \/ ResourceSystem_ctor
    \/ apply_resource_simulation
    \/ reset
    \/ regrow
    \/ hand_over

SpecRegrow == Init /\ [][NextRegrow]_vars

\* ------------------------------------------------------------- properties
\* the positions in hist of the simulate calls
SimCalls == {k \in 1..Len(hist) : hist[k].op = "simulate"}

\* the last call on the ResourceSystem was a simulate call that returned
JustSimulated ==
    /\ pc = "sim"
    /\ hist # <<>>
    /\ hist[Len(hist)].op = "simulate"

\* simulate calls k and k + 1 were made in a row on the same branch list
InARow(k) ==
    /\ k \in SimCalls
    /\ k + 1 \in SimCalls
    /\ hist[k].after = hist[k].before
    /\ hist[k + 1].before = hist[k].before

NoDuplicates(seq) == Cardinality(SeqToSet(seq)) = Len(seq)

\* the flat list holds exactly the branches reachable from root, once each
FlatListMatchesTree ==
    /\ SeqToSet(all_branches) = SeqToSet(get_all_branches(branches, root))
    /\ NoDuplicates(all_branches)

\* C1: after interpret and after any number of simulate calls, every branch
\* of all_branches is reachable from root through children lists, every
\* branch reachable from root is in all_branches, and none appears twice.
C1_FlatListConsistent ==
    pc \in {"tree", "sim"} => FlatListMatchesTree

\* C2: two simulate calls in a row on a tree that is not regrown between
\* them mark the same set of branches for pruning.
C2_SamePruningSet ==
    \A k \in SimCalls :
       InARow(k) => hist[k + 1].marked = hist[k].marked

C4_StateCountIsBranchCount ==
    JustSimulated => Len(branch_states_) = Len(all_branches)

\* simulate call k marked index i for a reason should_prune states
MarkedForCause(k, i) ==
    LET st == hist[k].states[i]
    IN /\ hist[k].depth[i] > 1
       /\ hist[k].depth[i] >= rparams.pruning_grace_period + 2
       /\ \/ st.light_capture < rparams.min_light_threshold
          \/ /\ st.resource_balance < rparams.min_resource_threshold
             /\ st.resource_balance < 0
             /\ k - 1 \in SimCalls
             /\ hist[k - 1].before = hist[k].before
             /\ hist[k - 1].states[i].resource_balance < 0

C8_SameLightCapture ==
    \A k \in SimCalls :
       InARow(k) =>
          \A i \in 1..Len(hist[k].before) :
             hist[k + 1].states[i].light_capture
                = hist[k].states[i].light_capture

\* simulate calls are made as long as the caller has calls to make
FairSpec == Spec /\ WF_vars(apply_resource_simulation)

\* some simulate call marked the branch b
Marked(b) == \E k \in SimCalls : b \in hist[k].marked

\* in some simulate call the branch b captured at least the minimum light
HadEnoughLight(b) ==
    \E k \in SimCalls : \E i \in 1..Len(hist[k].before) :
       /\ hist[k].before[i] = b
       /\ hist[k].states[i].light_capture >= rparams.min_light_threshold

\* a new ResourceSystem with pruning enabled has been handed the tree and
\* no simulate call has been made yet
PruningAhead ==
    /\ pc = "sim"
    /\ calls = 0
    /\ rparams.pruning_enabled

\* every branch of the tree the first simulate call was handed that is at
\* depth pruning_grace_period + 2 or deeper has been marked by some call, or
\* some call found it with at least the minimum light
DeepBranchesSettled ==
    /\ calls >= 1
    /\ \A i \in 1..Len(hist[1].before) :
          hist[1].depth[i] >= rparams.pruning_grace_period + 2
             => \/ Marked(hist[1].before[i])
                \/ HadEnoughLight(hist[1].before[i])

\* C6: with pruning enabled, a branch at depth >= pruning_grace_period + 2
\* whose light_capture is below min_light_threshold in every simulate call
\* is eventually marked for pruning: once the tree is handed over, in time
\* every such branch is marked, unless some call found it with at least the
\* minimum light.
C6_LowLightEventuallyMarked == PruningAhead ~> DeepBranchesSettled

\* C6 witness: a branch that was below the minimum light was marked.
C6_Witness ==
    \E k \in SimCalls : \E i \in 1..Len(hist[k].before) :
       /\ rparams.pruning_enabled
       /\ hist[k].depth[i] >= rparams.pruning_grace_period + 2
       /\ hist[k].states[i].light_capture < rparams.min_light_threshold
       /\ hist[k].before[i] \in hist[k].marked
       /\ ~HadEnoughLight(hist[k].before[i])

RECURSIVE Rewritten(_, _)
\* a string with every character that has a rule replaced by the rule's
\* replacement, left to right
Rewritten(rules, str) ==
    IF str = <<>> THEN <<>>
    ELSE (IF Head(str) \in DOMAIN rules THEN rules[Head(str)]
          ELSE <<Head(str)>>) \o Rewritten(rules, Tail(str))

RECURSIVE RewrittenTimes(_, _, _)
RewrittenTimes(rules, str, n) ==
    IF n = 0 THEN str ELSE RewrittenTimes(rules, Rewritten(rules, str), n - 1)

BushRule == [c \in {"F"} |-> <<"F", "[", "+", "F", "]", "F">>]

\* C9: generate makes exactly `iterations` rewriting passes, each replacing
\* every character that has a rule by the rule's replacement, left to right,
\* and copying the others; axiom "F" with F -> "F[+F]F" gives "F[+F]F"
\* after 1 pass and "F[+F]F[+F[+F]F]F[+F]F" after 2.
C9_GenerateRewrites ==
    pc = "generated" =>
       /\ gen_i = lparams.iterations
       /\ current = RewrittenTimes(lparams.rules, lparams.axiom,
                                   lparams.iterations)
       /\ (lparams.axiom = <<"F">> /\ lparams.rules = BushRule) =>
             /\ lparams.iterations = 1 =>
                   current = <<"F", "[", "+", "F", "]", "F">>
             /\ lparams.iterations = 2 =>
                   current = <<"F", "[", "+", "F", "]", "F", "[", "+",
                               "F", "[", "+", "F", "]", "F", "]",
                               "F", "[", "+", "F", "]", "F">>

\* C9 witness: generate returned after two passes over the axiom "F" with
\* the rule F -> "F[+F]F".
C9_Witness ==
    /\ pc = "generated"
    /\ lparams.axiom = <<"F">>
    /\ lparams.rules = BushRule
    /\ lparams.iterations = 2
    /\ Len(current) = 21

\* C10: with iterations = 0 generate returns the axiom unchanged, for any
\* rule table.
C10_ZeroIterationsReturnAxiom ==
    (pc = "generated" /\ lparams.iterations = 0) => current = lparams.axiom

\* C10 witness: generate returned with iterations = 0 for an axiom that has
\* a character with a rule.
C10_Witness ==
    /\ pc = "generated"
    /\ lparams.iterations = 0
    /\ \E i \in 1..Len(lparams.axiom) :
          lparams.axiom[i] \in DOMAIN lparams.rules

LastSymbolChangedNothing ==
    /\ state = last.state
    /\ state_stack = last.state_stack
    /\ current_branch = last.current_branch
    /\ branches = last.branches
    /\ all_branches = last.all_branches

\* C12: a `]` processed while the state stack is empty is a no-op: the
\* turtle, the stack, the tree and the current branch are unchanged and the
\* interpreter goes on.
C12_PopOnEmptyStackIsNoOp ==
    (last.symbol = "]" /\ last.state_stack = <<>>) =>
       /\ pc = "interpret"
       /\ LastSymbolChangedNothing

\* C12 witness: a `]` was processed on an empty stack after the turtle had
\* turned and a branch had been emitted.
C12_Witness ==
    /\ last.symbol = "]"
    /\ last.state_stack = <<>>
    /\ state.direction # TurtleState.direction
    /\ Len(all_branches) >= 2

\* C13: a symbol outside F f + - & ^ \ / [ ] leaves the turtle state, the
\* state stack, the tree and the current branch unchanged.
C13_UnknownSymbolIgnored ==
    last.symbol = "X" => (pc = "interpret" /\ LastSymbolChangedNothing)

\* C13 witness: an unknown symbol was processed inside a bracket, after a
\* branch had been emitted.
C13_Witness ==
    /\ last.symbol = "X"
    /\ state_stack # <<>>
    /\ Len(all_branches) >= 2

\* C20: `[` pushes a copy of the turtle state and then raises the depth by
\* one; a `]` on a non-empty stack restores position, direction, up, radius
\* and depth to the values they had when the matching `[` was processed, and
\* the stack to the height it had then.
C20_BracketsSaveAndRestore ==
    /\ last.symbol = "[" =>
          /\ state_stack = Append(last.state_stack, last.state)
          /\ state = [last.state EXCEPT !.depth = @ + 1]
    /\ (last.symbol = "]" /\ last.open # <<>>) =>
          /\ state = last.open[Len(last.open)].state
          /\ Len(state_stack) = Len(last.open) - 1
    /\ pc = "interpret" => Len(state_stack) = Len(open_)

\* C20 witness: a `]` closed the inner of two open brackets, inside which
\* the turtle had turned, and put the turtle back at depth 1.
C20_Witness ==
    /\ last.symbol = "]"
    /\ Len(last.open) = 2
    /\ last.state.direction # state.direction
    /\ last.state.depth = 2
    /\ state.depth = 1

\* C14: the tree interpret builds has a root that is the first entry of the
\* flat list, has depth 0, no parent and its start at the origin, from
\* before the first symbol is processed until interpret returns the tree.
C14_RootFirstAtOrigin ==
    pc \in {"interpret", "tree"} =>
       /\ root # NullPtr
       /\ all_branches # <<>>
       /\ all_branches[1] = root
       /\ branches[root].depth = 0
       /\ branches[root].parent = NullPtr
       /\ branches[root].start_pos = Vec3(0, 0, 0)

\* C14 witness: interpret returned a tree of three branches or more, one of
\* them a child of the root.
C14_Witness ==
    /\ pc = "tree"
    /\ Len(all_branches) >= 3
    /\ branches[root].children # <<>>

\* the branch b has no parent, or a parent that exists and is one level up
DepthIsParentPlusOne(b) ==
    branches[b].parent # NullPtr =>
       /\ IsLive(branches, branches[b].parent)
       /\ branches[b].depth = branches[branches[b].parent].depth + 1

\* C15: in the tree interpret builds, and in what remains of it after any
\* number of simulate calls, every branch of the flat list that has a
\* parent has the parent's depth plus 1.
C15_DepthIsParentDepthPlusOne ==
    pc \in {"interpret", "tree", "sim"} =>
       \A i \in 1..Len(all_branches) : DepthIsParentPlusOne(all_branches[i])

\* the part of C15 about the tree as interpret builds it
DepthHoldsBeforeSimulation ==
    pc \in {"interpret", "tree"} =>
       \A i \in 1..Len(all_branches) : DepthIsParentPlusOne(all_branches[i])

\* how far, in thousandths, v is from unit length
OffUnit(v) == IF VLength(v) >= Scale THEN VLength(v) - Scale
              ELSE Scale - VLength(v)

\* how far, in thousandths, a and b are from orthogonal
OffOrthogonal(a, b) == IF Dot(a, b) >= 0 THEN Dot(a, b) ELSE -Dot(a, b)

\* the turtle's frame is orthonormal to a hundredth, ten times the
\* resolution of the arithmetic here
Orthonormal(st) ==
    /\ OffUnit(st.direction) <= 10
    /\ OffUnit(st.up) <= 10
    /\ OffOrthogonal(st.direction, st.up) <= 10

C17_LightWithinUnitRange ==
    /\ \A k \in SimCalls : \A i \in 1..Len(hist[k].states) :
          /\ hist[k].states[i].light_capture >= 0
          /\ hist[k].states[i].light_capture <= Scale
    /\ pc = "sim" =>
          \A b \in 1..Len(branches) :
             IsLive(branches, b) =>
                /\ branches[b].light_exposure >= 0
                /\ branches[b].light_exposure <= Scale

\* C17 witness: a second call in a row, with light competition disabled,
\* left a branch with less light than the first call did.
C17_Witness ==
    /\ pc = "sim"
    /\ ~rparams.light_competition_enabled
    /\ \E k \in SimCalls :
          /\ InARow(k)
          /\ \E i \in 1..Len(hist[k].states) :
                /\ hist[k + 1].states[i].light_capture
                      < hist[k].states[i].light_capture
                /\ branches[hist[k].before[i]].light_exposure
                      = hist[k + 1].states[i].light_capture

\* a tropism system is attached and curve_segments is positive
Curving == tropism_ # NoTropism /\ lparams.curve_segments > 0

\* C18: with a tropism system attached and curve_segments > 0 every branch
\* F emits has exactly curve_segments + 1 curve points, the first of them
\* its start; a branch without curve points ends at start + direction *
\* length, a branch with curve points at the last of them.
C18_CurvePointsOfEmittedBranches ==
    pc \in {"interpret", "tree"} =>
       \A i \in 1..Len(all_branches) :
          LET br == branches[all_branches[i]]
          IN /\ (Curving /\ all_branches[i] # root) =>
                   /\ Len(br.curve_points) = lparams.curve_segments + 1
                   /\ br.curve_points[1] = br.start_pos
             /\ br.curve_points = <<>> =>
                   end_pos(br) = VAdd(br.start_pos,
                                      VScale(br.direction, br.length))
             /\ br.curve_points # <<>> =>
                   end_pos(br) = br.curve_points[Len(br.curve_points)]

\* C18 witness: F emitted a branch of two bent segments after the turtle
\* had turned, and the turtle stands at the last of its curve points.
C18_Witness ==
    /\ pc = "interpret"
    /\ Curving
    /\ lparams.curve_segments = 2
    /\ last.symbol = "F"
    /\ last.state.direction # TurtleState.direction
    /\ Len(branches[current_branch].curve_points) = 3
    /\ state.position = branches[current_branch].curve_points[3]
    /\ state.position # VAdd(branches[current_branch].start_pos,
                             VScale(last.state.direction,
                                    branches[current_branch].length))

\* the positions and the unit directions light exposure is computed for,
\* besides those of the branches F emits
ExposurePositions ==
    {Vec3(0, 0, 0), Vec3(0, 20 * Scale, 0), Vec3(2 * Scale, Scale, 0),
     Vec3(3 * Scale, -2 * Scale, Scale), Vec3(0, -5 * Scale, 0)}
ExposureDirections ==
    {Vec3(Scale, 0, 0), Vec3(-Scale, 0, 0), Vec3(0, Scale, 0),
     Vec3(0, -Scale, 0), Vec3(0, 0, Scale), Vec3(0, 0, -Scale),
     Vec3(577, 577, 577), Vec3(-707, 0, 707)}

\* C19: for every position, every unit direction and every ambient_light in
\* [0, 1], compute_light_exposure returns at least ambient_light and at
\* most 1: for the inputs drawn here, and for every branch F emits.
C19_ExposureWithinAmbientAndOne ==
    tropism_ # NoTropism =>
       /\ \A p \in ExposurePositions, d \in ExposureDirections :
             /\ compute_light_exposure(tropism_, p, d)
                   >= tropism_.environment_.ambient_light
             /\ compute_light_exposure(tropism_, p, d) <= Scale
       /\ (Curving /\ pc \in {"interpret", "tree"}) =>
             \A i \in 2..Len(all_branches) :
                /\ branches[all_branches[i]].light_exposure
                      >= tropism_.environment_.ambient_light
                /\ branches[all_branches[i]].light_exposure <= Scale

\* C19 witness: F emitted a branch that faces away from the light, whose
\* exposure is the ambient light, below 1.
C19_Witness ==
    /\ pc = "interpret"
    /\ Curving
    /\ last.symbol = "F"
    /\ tropism_.environment_.ambient_light > 0
    /\ tropism_.environment_.ambient_light < Scale
    /\ branches[current_branch].light_exposure
          = tropism_.environment_.ambient_light
    /\ compute_light_exposure_no_floor(
          tropism_,
          VAdd(branches[current_branch].start_pos,
               VScale(branches[current_branch].direction,
                      FMul(branches[current_branch].length, 500))),
          branches[current_branch].direction)
          < tropism_.environment_.ambient_light

\* the current branch ends where the turtle is, within the tolerance of
\* process_symbol ']'
CurrentEndsAtTurtle ==
    /\ current_branch # NullPtr
    /\ VLength(VSub(end_pos(branches[current_branch]), state.position)) < 1

\* C21: after a `]` processed with a non-empty stack, the current branch is
\* a branch of the tree whose end position is the restored turtle position,
\* within the tolerance, for every L-string, `f` moves before the matching
\* `[` included.
C21_PopFindsBranchAtPosition ==
    (last.symbol = "]" /\ last.state_stack # <<>>) =>
       /\ current_branch \in SeqToSet(all_branches)
       /\ CurrentEndsAtTurtle

\* the heap as the last symbol found it, with the branch that was current
\* given one more child
WithNewChild(child) ==
    [last.branches EXCEPT ![last.current_branch].children = Append(@, child)]

\* C22: each F emits exactly one new branch, which is appended to the flat
\* list, is added as a child of the branch that was current before the F and
\* becomes the current branch, and the turtle position becomes that branch's
\* end position; no other symbol, f included, adds a branch, so the tree
\* interpret returns has 1 + (number of F processed) branches.
C22_FEmitsOneBranch ==
    /\ last.symbol = "F" =>
          LET new_branch == Len(last.branches) + 1
          IN /\ Len(branches) = new_branch
             /\ SubSeq(branches, 1, new_branch - 1) = WithNewChild(new_branch)
             /\ all_branches = Append(last.all_branches, new_branch)
             /\ branches[new_branch].parent = last.current_branch
             /\ branches[new_branch].children = <<>>
             /\ current_branch = new_branch
             /\ state.position = end_pos(branches[new_branch])
    /\ last.symbol \notin {"", "F"} =>
          /\ branches = last.branches
          /\ all_branches = last.all_branches
    /\ pc \in {"interpret", "tree"} =>
          /\ Len(all_branches) = 1 + nF
          /\ Len(get_all_branches(branches, root)) = 1 + nF

\* C22 witness: interpret returned a tree after an F inside a bracket had
\* been given a branch other than the root as its parent, and an f had moved
\* the turtle.
C22_Witness ==
    /\ pc = "tree"
    /\ nF = 2
    /\ Len(all_branches) = 3
    /\ branches[3].parent = 2
    /\ branches[3].start_pos # end_pos(branches[2])

\* C28: every branch emitted by F has the depth the turtle state had when
\* it was emitted, which is the number of `[` open then, so consecutive F
\* symbols with no bracket between them emit branches of one depth.
C28_EmittedDepthIsTurtleDepth ==
    last.symbol = "F" =>
       /\ last.state.depth = Len(last.open)
       /\ branches[current_branch].depth = last.state.depth

\* C29: after a `]` processed with a non-empty stack, the current branch is
\* the branch that was current when the matching `[` was processed, so that
\* the next F becomes a child of that branch, for every L-string, two
\* branches with coincident end positions included.
C29_PopRestoresCurrentBranch ==
    (last.symbol = "]" /\ last.open # <<>>) =>
       current_branch = last.open[Len(last.open)].current_branch

\* simulate call k started from the states the simulate call before it
\* left: no reset() came between them and the branch count is the same
StatesKept(k) ==
    /\ k \in SimCalls
    /\ k - 1 \in SimCalls
    /\ hist[k].before # <<>>
    /\ Len(hist[k - 1].states) = Len(hist[k].before)

\* what one calculate_resources call may do to the deficit record of one
\* branch, from the state old to the state new
DeficitStep(old, new) ==
    IF new.resource_balance < 0
    THEN /\ new.deficit_duration = old.deficit_duration + 1
         /\ new.accumulated_deficit
              = old.accumulated_deficit - new.resource_balance
    ELSE /\ new.accumulated_deficit <= old.accumulated_deficit
         /\ new.deficit_duration \in {0, old.deficit_duration}
         /\ new.deficit_duration # old.deficit_duration =>
               new.accumulated_deficit < 10

\* C23: across calculate_resources calls on a branch list of unchanged
\* size, accumulated_deficit and deficit_duration are never negative; a
\* call with a negative balance raises deficit_duration by exactly 1 and
\* adds the size of the deficit to accumulated_deficit; a call with a
\* non-negative balance raises neither, and puts deficit_duration back to 0
\* only once accumulated_deficit has decayed below 0.01.
C23_DeficitBookkeeping ==
    \A k \in SimCalls : \A i \in 1..Len(hist[k].states) :
       /\ hist[k].states[i].accumulated_deficit >= 0
       /\ hist[k].states[i].deficit_duration >= 0
       /\ StatesKept(k) =>
             DeficitStep(hist[k - 1].states[i], hist[k].states[i])

\* C23 witness: a branch that had been in deficit for two calls is out of
\* deficit in the third, with a deficit record that has not yet decayed
\* below 0.01, so that its deficit_duration stays.
C23_Witness ==
    \E i \in 1..Len(branch_states_) :
       /\ StatesKept(2)
       /\ StatesKept(3)
       /\ hist[2].states[i].deficit_duration = 2
       /\ hist[3].states[i].resource_balance >= 0
       /\ hist[3].states[i].accumulated_deficit >= 10
       /\ hist[3].states[i].deficit_duration = 2

\* C24: at the end of every calculate_resources call on a non-empty branch
\* list, each branch's light_exposure is the light_capture of the
\* ResourceState at the same index of the flat list: the value the light
\* capture and the competition stages of that call left.
C24_ExposureIsLightCapture ==
    (JustSimulated /\ hist[Len(hist)].before # <<>>) =>
       LET h == hist[Len(hist)]
       IN \A i \in 1..Len(h.before) :
             IsLive(branches, h.before[i]) =>
                branches[h.before[i]].light_exposure
                   = branch_states_[i].light_capture

\* C24 witness: a simulate call left a branch with a light_exposure below
\* the 1.0 it was constructed with, and other than its neighbour's.
C24_Witness ==
    /\ JustSimulated
    /\ Len(all_branches) >= 3
    /\ hist[Len(hist)].marked = {}
    /\ branches[all_branches[2]].light_exposure < 1000
    /\ branches[all_branches[3]].light_exposure
          # branches[all_branches[2]].light_exposure

\* this step is a simulate call that returned
SimulateStep ==
    /\ Len(hist') = Len(hist) + 1
    /\ hist'[Len(hist')].op = "simulate"

\* the step left the flat list, the root, every children list and every
\* parent reference as they were, and destroyed no branch
StructureUnchanged ==
    /\ all_branches' = all_branches
    /\ root' = root
    /\ DOMAIN branches' = DOMAIN branches
    /\ \A b \in DOMAIN branches :
          /\ IsLive(branches', b) = IsLive(branches, b)
          /\ IsLive(branches, b) =>
                /\ branches'[b].children = branches[b].children
                /\ branches'[b].parent = branches[b].parent

\* C25: with pruning_enabled false in a ResourceSystem that has never had
\* it enabled, no simulate call marks a branch for pruning, and the flat
\* list, every children list and every parent reference of the tree are as
\* they were before the call.
C25_PruningOffChangesNoStructure ==
    [][(SimulateStep /\ ~rparams.pruning_enabled) =>
          /\ pc' = "sim"
          /\ \A i \in 1..Len(branch_states_') :
                ~branch_states_'[i].marked_for_pruning
          /\ hist'[Len(hist')].pruned_ids = <<>>
          /\ StructureUnchanged]_vars

\* C25 witness: two simulate calls have been made without pruning on a tree
\* with a branch deep enough and dark enough, or long enough in deficit,
\* for should_prune to hold.
C25_Witness ==
    /\ JustSimulated
    /\ ~rparams.pruning_enabled
    /\ calls >= 2
    /\ \E i \in 1..Len(all_branches) :
          should_prune(rparams, branches[all_branches[i]], branch_states_[i])

\* C26: after any number of simulate calls, every branch that remains in
\* the flat list and is not the root has a parent reference to a branch
\* that is itself still in the flat list: no remaining branch refers to a
\* pruned, released parent.
C26_ParentsRemainInFlatList ==
    pc = "sim" =>
       \A i \in 1..Len(all_branches) :
          all_branches[i] # root =>
             /\ branches[all_branches[i]].parent \in SeqToSet(all_branches)
             /\ IsLive(branches, branches[all_branches[i]].parent)

\* C27: a simulate call removes a branch from the tree only if should_prune
\* held for that branch's own depth and for its ResourceState as that same
\* call computed it, in every sequence of simulate calls on one
\* ResourceSystem, the branch list being pruned, regrown or replaced between
\* calls without reset() included.
C27_RemovedOnlyIfShouldPrune ==
    \A k \in SimCalls : \A i \in 1..Len(hist[k].before) :
       hist[k].before[i] \notin SeqToSet(hist[k].after) =>
          should_prune(rparams, [depth |-> hist[k].depth[i]],
                       hist[k].states[i])

\* this step is a step of LSystem::generate
GenerateStep ==
    /\ pc \in {"lsystem", "generate"}
    /\ pc' \in {"generate", "generated"}

WithRule(str) == SelectSeq(str, LAMBDA c : c \in DOMAIN lparams.rules)

====
